---- MODULE Spec2Model ----
(***************************************************************************)
(* A model of the shipment assembly pipeline of easypost-mcp-server:       *)
(*   - CircuitBreaker.execute / onSuccess / onFailure                      *)
(*       (src/src-utils-error-handler.ts), with overlapping execute calls  *)
(*       suspended at `await fn()`;                                        *)
(*   - retryWithBackoff (src/src-utils-error-handler.ts);                  *)
(*   - createShippingLabel (src/src-tools-shipping-labels.ts) with the     *)
(*       EasyPostService / Context7Client requests it issues;              *)
(*   - generateCustoms (src/src-tools-customs-calculator.ts and            *)
(*       src/unnamed/part_000) with Context7Client.getHTSCode;             *)
(*   - address validation (EasyPostService, Context7Client and the         *)
(*       validate_address tool);                                           *)
(*   - parseShippingInput (src/src-utils-validation.ts);                   *)
(*   - convertAndBuffer (src/src-tools-weight-converter.ts and             *)
(*       src/src-utils-validation.ts).                                     *)
(* Each component has its own next-state relation and specification; the  *)
(* variables of the other components keep their initial values.           *)
(***************************************************************************)
EXTENDS Integers, Sequences, FiniteSets, TLC

(***************************************************************************)
(* Bounds of the model.                                                    *)
(***************************************************************************)
\* constructor arguments tried for `threshold`: 1..MaxThreshold
MaxThreshold == 3
\* constructor arguments tried for `timeout` (clock ticks): 1..MaxTimeout
MaxTimeout == 2
\* the clock Date.now() runs from 0 to MaxTime
MaxTime == 3
\* fn may fail while failureCount < MaxFailures
MaxFailures == 6
\* overlapping execute calls: slots 1..MaxCalls
MaxCalls == 2
\* retryWithBackoff arguments tried for maxRetries: 0..MaxRetriesArg and the default
MaxRetriesArg == 2
\* retryWithBackoff arguments tried for baseDelay: 1..MaxBaseDelay and the default
MaxBaseDelay == 2
\* fn() takes 0..MaxFnTime ms to settle
MaxFnTime == 1
\* a timer fires 0..MaxTimerLag ms after its delay has passed
MaxTimerLag == 1
\* a parsed input carries 0..MaxProducts products
MaxProducts == 1
\* create-shipment returns at most MaxRates rates
MaxRates == 3
\* products handed to generateCustoms
MaxItems == 2
\* empty fields in a positional row
MaxBlank == 2
\* lines of a free-text input
MaxLines == 2
\* weightLbs of a light parcel, in hundredths of a pound
MaxCentiLbs == 30

\* weight-converter.ts:41, bufferPercent, in percent
BufferPercent == 15

VARIABLES
    \* ---- CircuitBreaker (error-handler.ts:30-88)
    live,              \* the breaker has been constructed
    threshold,         \* private readonly threshold
    timeout,           \* private readonly timeout
    state,             \* 'CLOSED' | 'OPEN' | 'HALF_OPEN'
    failureCount,      \* private failureCount
    lastFailureTime,   \* private lastFailureTime
    now,               \* Date.now()
    call,              \* per call slot: the execute call suspended at `await fn()`, or Idle
    ret,               \* how the execute call that returned last ended: its result,
                       \* its fn invocations, whether it was a HALF_OPEN trial
    streak,            \* observed: fn failures since the last fn success
    overlap,           \* observed: two execute calls have been in flight together
    \* ---- retryWithBackoff (error-handler.ts:90-112)
    rpc,               \* "idle", "calling" (await fn()), "sleeping" (await setTimeout),
                       \* "returned" or "thrown"
    maxRetries,        \* argument
    baseDelay,         \* argument
    attempt,           \* the loop variable
    lastError,         \* let lastError
    wakeAt,            \* when the pending timer is due
    rnow,              \* the clock, ms since the call
    rres,              \* what the call returned or threw
    rstarts,           \* observed: the start time of each fn invocation
    routs,             \* observed: the outcome of each settled fn invocation
    rwaits,            \* observed: the delay of each timer set
    \* ---- createShippingLabel (shipping-labels.ts:46-266)
    lpc,               \* "idle", "hts" (await getHTSCode inside generateCustoms),
                       \* "customsInfo", "shipment", "buy" (the awaited request) or "done"
    linp,              \* what parseShippingInput made of args.inputData
    lkey,              \* serverConfig.context7.apiKey is set
    lhts,              \* products generateCustoms has still to classify
    lcustoms,          \* let customs: "null" or "obj"
    lshipment,         \* const shipment
    lselected,         \* let selectedRate
    lresult,           \* what the call returned
    lcalls,            \* observed: the external requests issued, with their outcome
    \* ---- generateCustoms (customs-calculator.ts:37-65, part_000:183-224)
    gpc,               \* "idle", "fetch" (the awaited hts-lookup request), "returned"
                       \* or "thrown"
    gver,              \* which generateCustoms runs: "flat" (src-tools-customs-
                       \* calculator.ts) or "tools" (src/tools/customs-calculator.ts)
    gkey,              \* Context7Client.apiKey is set
    gprods,            \* products, after the sample products were injected
    gidx,              \* the product the for loop is at
    gitems,            \* const customsItems
    glooked,           \* observed: the products getHTSCode sent a request for
    gfailed,           \* observed: the products whose request failed
    gtotal,            \* totalValue of the declaration returned, in cents
    \* ---- address validation (part_000:95-108, part_008:259-323,
    \*      src/tools/address-validation.ts:31-63)
    apc,               \* "idle", "request" (the awaited external call) or "returned"
    awho,              \* the validator called
    akey,              \* Context7Client.apiKey is set
    aaddr,             \* the address argument
    aout,              \* observed: how the external call ended ("none": not made)
    ares,              \* what the validator returned
    \* ---- parseShippingInput (validation.ts:30-211)
    pin,               \* inputData
    pres,              \* what the call returned or threw
    \* ---- convertAndBuffer (weight-converter.ts:29-58, validation.ts:213-233)
    wver,              \* which convertAndBuffer runs: "flat" or "validation"
    wlbs,              \* weightLbs
    wprods,            \* productDetails
    wres               \* what the call returned

cbVars == <<live, threshold, timeout, state, failureCount, lastFailureTime, now,
            call, ret, streak, overlap>>

rVars == <<rpc, maxRetries, baseDelay, attempt, lastError, wakeAt, rnow, rres,
           rstarts, routs, rwaits>>

lVars == <<lpc, linp, lkey, lhts, lcustoms, lshipment, lselected, lresult, lcalls>>

gVars == <<gpc, gver, gkey, gprods, gidx, gitems, glooked, gfailed, gtotal>>

aVars == <<apc, awho, akey, aaddr, aout, ares>>

pVars == <<pin, pres>>

wVars == <<wver, wlbs, wprods, wres>>

\* selectShipFromAddress: the ShippingInput it is given and the address returned
VARIABLES sinp, sres

sVars == <<sinp, sres>>

\* getShippingRates (src-tools-rate-fetcher.ts:31-92)
VARIABLES
    fpc,               \* "idle", "shipment" (awaiting createShipment), "rates"
                       \* (awaiting getShipmentRates) or "done"
    finp,              \* what the steps before the first await make of args.inputData
    fshipment,         \* shipment.id
    fcalls,            \* observed: the external requests issued, with their outcome
    fres               \* what getShippingRates returned

fVars == <<fpc, finp, fshipment, fcalls, fres>>

\* the service behind fn has recovered: no fn invocation fails any more
VARIABLES healed

vars == <<cbVars, rVars, lVars, gVars, aVars, pVars, wVars, sVars, fVars, healed>>

\* the variables each component leaves alone
exceptBreaker == <<rVars, lVars, gVars, aVars, pVars, wVars, sVars, fVars, healed>>
exceptRetry == <<cbVars, lVars, gVars, aVars, pVars, wVars, sVars, fVars, healed>>
exceptLabel == <<cbVars, rVars, gVars, aVars, pVars, wVars, sVars, fVars, healed>>
exceptCustoms == <<cbVars, rVars, lVars, aVars, pVars, wVars, sVars, fVars, healed>>
exceptAddress == <<cbVars, rVars, lVars, gVars, pVars, wVars, sVars, fVars, healed>>
exceptParse == <<cbVars, rVars, lVars, gVars, aVars, wVars, sVars, fVars, healed>>
exceptWeight == <<cbVars, rVars, lVars, gVars, aVars, pVars, sVars, fVars, healed>>
exceptShipFrom == <<cbVars, rVars, lVars, gVars, aVars, pVars, wVars, fVars, healed>>
exceptFetch == <<cbVars, rVars, lVars, gVars, aVars, pVars, wVars, sVars, healed>>
exceptRecovery == <<rVars, lVars, gVars, aVars, pVars, wVars, sVars, fVars>>

Calls == 1..MaxCalls

\* error-handler.ts:36, `threshold: number = 5`
DefaultThreshold == 5

\* the constructor arguments the model tries
Thresholds == (1..MaxThreshold) \cup {DefaultThreshold}

Timeouts == 1..MaxTimeout

(***************************************************************************)
(* CircuitBreaker                                                          *)
(***************************************************************************)

\* a call slot with no execute call in flight
Idle == [pc |-> "idle", fb |-> FALSE, trial |-> FALSE, half |-> FALSE]

\* no execute call has returned yet
NoReturn == [res |-> "none", inv |-> 0, trial |-> FALSE]

\* error-handler.ts:31-33, the field initialisers
InitBreaker ==
    /\ live = FALSE
    /\ threshold = 0
    /\ timeout = 0
    /\ state = "CLOSED"
    /\ failureCount = 0
    /\ lastFailureTime = 0
    /\ now = 0
    /\ call = [c \in Calls |-> Idle]
    /\ ret = NoReturn
    /\ streak = 0
    /\ overlap = FALSE

\* error-handler.ts:35-38, new CircuitBreaker(threshold, timeout)
NewBreaker(th, to) ==
    /\ ~live
    /\ live' = TRUE
    /\ threshold' = th
    /\ timeout' = to
    /\ UNCHANGED <<state, failureCount, lastFailureTime, now, call, ret, streak, overlap>>

\* variant of TimeoutElapsed: the timeout never ends
TimeoutNeverElapsed == FALSE

\* error-handler.ts:43, now - this.lastFailureTime >= this.timeout
TimeoutElapsed == now - lastFailureTime >= timeout

\* variant of RejectResult: the fallback is ignored on the short-circuit path
RejectResultNoFallback(fb) == "error503"

\* error-handler.ts:48-49, an OPEN breaker inside its timeout answers without fn
RejectResult(fb) == IF fb THEN "fallback" ELSE "error503"

\* error-handler.ts:67-73, onSuccess
OnSuccessCount == 0

\* variant of OnSuccessState: a successful trial leaves the breaker HALF_OPEN
OnSuccessStateStuck(s) == s

OnSuccessState(s) == IF s = "HALF_OPEN" THEN "CLOSED" ELSE s

\* error-handler.ts:75-83, onFailure
OnFailureCount(fc) == fc + 1

\* variant of OnFailureState: `>` instead of `>=`
OnFailureStateOffByOne(s, fc) == IF fc > threshold THEN "OPEN" ELSE s

OnFailureState(s, fc) == IF fc >= threshold THEN "OPEN" ELSE s

\* variant of FailureResult: the fallback answers every failure
FailureResultAlwaysFallback(fb, s) == IF fb THEN "fallback" ELSE "rethrow"

\* error-handler.ts:59-63, the catch block after onFailure
FailureResult(fb, s) == IF fb /\ s = "OPEN" THEN "fallback" ELSE "rethrow"

\* the part of execute that runs before `await fn()` suspends the call
\* (error-handler.ts:40-54); fb: a fallback was supplied.  The call records
\* whether it moved the breaker OPEN -> HALF_OPEN (trial) and whether the
\* breaker was HALF_OPEN when it invoked fn (half).
Execute(c, fb) ==
    /\ live
    /\ call[c].pc = "idle"
    /\ IF state = "OPEN" /\ ~TimeoutElapsed
       THEN /\ ret' = [res |-> RejectResult(fb), inv |-> 0, trial |-> FALSE]
            /\ UNCHANGED <<state, call>>
       ELSE /\ state' = IF state = "OPEN" THEN "HALF_OPEN" ELSE state
            /\ call' = [call EXCEPT ![c] = [pc |-> "awaiting", fb |-> fb,
                                            trial |-> (state = "OPEN"),
                                            half |-> (state' = "HALF_OPEN")]]
            /\ UNCHANGED ret
    /\ overlap' = (overlap \/ \E d \in Calls : call[d].pc = "awaiting")
    /\ UNCHANGED <<live, threshold, timeout, failureCount, lastFailureTime, now, streak>>

\* fn() resolves: error-handler.ts:54-56 and onSuccess
FnSucceeds(c) ==
    /\ call[c].pc = "awaiting"
    /\ failureCount' = OnSuccessCount
    /\ state' = OnSuccessState(state)
    /\ call' = [call EXCEPT ![c] = Idle]
    /\ ret' = [res |-> "value", inv |-> 1, trial |-> call[c].trial]
    /\ streak' = 0
    /\ UNCHANGED <<live, threshold, timeout, lastFailureTime, now, overlap>>

\* fn() rejects: error-handler.ts:57-64 and onFailure
FnFails(c) ==
    /\ call[c].pc = "awaiting"
    /\ failureCount < MaxFailures
    /\ streak < MaxFailures
    /\ failureCount' = OnFailureCount(failureCount)
    /\ lastFailureTime' = now
    /\ state' = OnFailureState(state, failureCount')
    /\ call' = [call EXCEPT ![c] = Idle]
    /\ ret' = [res |-> FailureResult(call[c].fb, state'), inv |-> 1,
               trial |-> call[c].trial]
    /\ streak' = streak + 1
    /\ UNCHANGED <<live, threshold, timeout, now, overlap>>

\* the clock advances
Tick ==
    /\ live
    /\ now < MaxTime
    /\ now' = now + 1
    /\ UNCHANGED <<live, threshold, timeout, state, failureCount, lastFailureTime,
                   call, ret, streak, overlap>>

(***************************************************************************)
(* retryWithBackoff                                                        *)
(***************************************************************************)

\* error-handler.ts:92, `maxRetries = 3`
DefaultMaxRetries == 3

\* error-handler.ts:93, `baseDelay = 2000`
DefaultBaseDelay == 2000

MaxRetriesArgs == (0..MaxRetriesArg) \cup {DefaultMaxRetries}

BaseDelays == (1..MaxBaseDelay) \cup {DefaultBaseDelay}

\* the messages of the errors fn may reject with
ErrMsgs == {"ETIMEDOUT", "HTTP 500"}

NoResult == [kind |-> "none", value |-> 0, statusCode |-> 0, attempts |-> 0, last |-> "none"]

InitRetry ==
    /\ rpc = "idle"
    /\ maxRetries = 0
    /\ baseDelay = 0
    /\ attempt = 0
    /\ lastError = "none"
    /\ wakeAt = 0
    /\ rnow = 0
    /\ rres = NoResult
    /\ rstarts = <<>>
    /\ routs = <<>>
    /\ rwaits = <<>>

\* Math.pow(2, k)
RECURSIVE Pow2(_)
Pow2(k) == IF k = 0 THEN 1 ELSE 2 * Pow2(k - 1)

\* variant of BackoffDelay: the delay grows linearly
BackoffDelayLinear(b, k) == b * (k + 1)

\* error-handler.ts:104, baseDelay * Math.pow(2, attempt)
BackoffDelay(b, k) == b * Pow2(k)

\* variant of LoopContinues: `<` instead of `<=`
LoopContinuesOffByOne(a, m) == a < m

\* error-handler.ts:97, the loop condition attempt <= maxRetries
LoopContinues(a, m) == a <= m

\* error-handler.ts:111, the AppError thrown after the loop
Exhausted(m, err) ==
    [kind |-> "AppError", value |-> 0, statusCode |-> 500, attempts |-> m + 1, last |-> err]

\* error-handler.ts:90-99, the call up to the first `await fn()`
RetryCall(m, b) ==
    /\ rpc = "idle"
    /\ maxRetries' = m
    /\ baseDelay' = b
    /\ attempt' = 0
    /\ IF LoopContinues(0, m)
       THEN /\ rpc' = "calling"
            /\ rstarts' = Append(rstarts, rnow)
            /\ UNCHANGED rres
       ELSE /\ rpc' = "thrown"
            /\ rres' = Exhausted(m, lastError)
            /\ UNCHANGED rstarts
    /\ UNCHANGED <<lastError, wakeAt, rnow, routs, rwaits>>

\* error-handler.ts:99, fn() resolves after d ms: its value is returned
RetryFnResolves(d) ==
    /\ rpc = "calling"
    /\ rnow' = rnow + d
    /\ rpc' = "returned"
    /\ rres' = [kind |-> "value", value |-> Len(rstarts), statusCode |-> 0,
                attempts |-> 0, last |-> "none"]
    /\ routs' = Append(routs, [ok |-> TRUE, msg |-> "none", at |-> rnow'])
    /\ UNCHANGED <<maxRetries, baseDelay, attempt, lastError, wakeAt, rstarts, rwaits>>

\* error-handler.ts:100-111, fn() rejects with message e after d ms: either the
\* timer is set (attempt < maxRetries), or the loop ends and the AppError is
\* thrown
RetryFnRejects(e, d) ==
    /\ rpc = "calling"
    /\ rnow' = rnow + d
    /\ lastError' = e
    /\ routs' = Append(routs, [ok |-> FALSE, msg |-> e, at |-> rnow'])
    /\ IF attempt < maxRetries
       THEN /\ rpc' = "sleeping"
            /\ wakeAt' = rnow' + BackoffDelay(baseDelay, attempt)
            /\ rwaits' = Append(rwaits, BackoffDelay(baseDelay, attempt))
            /\ UNCHANGED <<attempt, rres, rstarts>>
       ELSE IF LoopContinues(attempt + 1, maxRetries)
            THEN /\ rpc' = "calling"
                 /\ attempt' = attempt + 1
                 /\ rstarts' = Append(rstarts, rnow')
                 /\ UNCHANGED <<wakeAt, rwaits, rres>>
            ELSE /\ rpc' = "thrown"
                 /\ attempt' = attempt + 1
                 /\ rres' = Exhausted(maxRetries, lastError')
                 /\ UNCHANGED <<wakeAt, rwaits, rstarts>>
    /\ UNCHANGED <<maxRetries, baseDelay>>

\* error-handler.ts:106 and 97-99, the timer fires lag ms after it is due, the
\* loop increments attempt and, if it continues, invokes fn again
RetryTimerFires(lag) ==
    /\ rpc = "sleeping"
    /\ rnow' = wakeAt + lag
    /\ attempt' = attempt + 1
    /\ IF LoopContinues(attempt + 1, maxRetries)
       THEN /\ rpc' = "calling"
            /\ rstarts' = Append(rstarts, rnow')
            /\ UNCHANGED rres
       ELSE /\ rpc' = "thrown"
            /\ rres' = Exhausted(maxRetries, lastError)
            /\ UNCHANGED rstarts
    /\ UNCHANGED <<maxRetries, baseDelay, lastError, wakeAt, routs, rwaits>>

(***************************************************************************)
(* createShippingLabel with EasyPostService, Context7Client and            *)
(* generateCustoms                                                         *)
(***************************************************************************)

\* What parseShippingInput and the synchronous steps up to the first await
\* (shipping-labels.ts:52-71) make of args.inputData:
\*   sync     "ok", or the step that throws: "parse" (parseShippingInput) or
\*            "prepare" (selectShipFromAddress, convertAndBuffer)
\*   country  recipient.country; "undef" when the input names none
\*   city     recipient.city ("" when absent)
\*   nprod    productDetails.length
\*   carrier  preferredCarrier; "none" is null or undefined
Inputs ==
    {i \in [sync : {"ok", "parse", "prepare"}, country : {"US", "DE", "undef"},
            city : {"", "Asperg"}, nprod : 0..MaxProducts,
            carrier : {"none", "FEDEX", "UPS", "DHL"}] :
        i.sync = "parse" => (i.country = "undef" /\ i.city = "" /\ i.nprod = 0
                             /\ i.carrier = "none")}

NoInput == [sync |-> "none", country |-> "undef", city |-> "", nprod |-> 0, carrier |-> "none"]

ShipmentIds == {"shp_1", "shp_2"}

\* the rates the carrier-rate service may quote; a service name is its
\* underscore-separated words
Rates ==
    { [id |-> "rate_ups", carrier |-> "UPS", service |-> <<"Ground">>, rate |-> 12],
      [id |-> "rate_fxp", carrier |-> "FedEx", service |-> <<"INTERNATIONAL", "PRIORITY">>,
       rate |-> 40],
      [id |-> "rate_fxe", carrier |-> "FedEx",
       service |-> <<"INTERNATIONAL", "PRIORITY", "EXPRESS">>, rate |-> 55],
      [id |-> "rate_fxg", carrier |-> "FedExDefault", service |-> <<"FEDEX", "GROUND">>,
       rate |-> 20],
      [id |-> "rate_usps", carrier |-> "USPS", service |-> <<"Priority">>, rate |-> 9] }

NoRate == [id |-> "none", carrier |-> "none", service |-> <<>>, rate |-> 0]

\* the rate lists create-shipment may return: any order, no rate twice
RateLists ==
    {q \in UNION {[1..n -> Rates] : n \in 0..MaxRates} :
        \A i, j \in 1..Len(q) : i # j => q[i] # q[j]}

NoShipment == [id |-> "none", hasRates |-> FALSE, rates |-> <<>>]

InitLabel ==
    /\ lpc = "idle"
    /\ linp = NoInput
    /\ lkey = FALSE
    /\ lhts = 0
    /\ lcustoms = "null"
    /\ lshipment = NoShipment
    /\ lselected = NoRate
    /\ lresult = [kind |-> "none"]
    /\ lcalls = <<>>

\* every input taken for international
IsInternationalAlways(i) == TRUE

\* shipping-labels.ts:70 and 259, recipient.country !== 'US'
IsInternational(i) == i.country # "US"

\* shipping-labels.ts:255-260, debugInfo; shippingInput is undefined when the
\* parse threw and weightData when a step before its assignment threw
DebugInfo(i, stage) ==
    [parsedRecipient |-> IF stage = "parse" \/ i.city = "" THEN "N/A" ELSE i.city,
     weightOz |-> IF stage \in {"parse", "prepare"} THEN "N/A" ELSE "reportedWeightOz",
     isInternational |-> IF stage = "parse" THEN TRUE ELSE IsInternational(i)]

\* variant of Caught: the error leaves createShippingLabel
CaughtRethrows(err, i, stage) == [kind |-> "thrown", error |-> err]

\* shipping-labels.ts:245-265, the catch block: the failure payload
Caught(err, i, stage) ==
    [kind |-> "failure", isError |-> TRUE, validationStatus |-> "FAILED",
     error |-> err, debugInfo |-> DebugInfo(i, stage),
     warnings |-> <<"Failed to generate shipping label">>]

\* the errors a run can end with; id is the shipment id the message names
ThrownBy(what) == [what |-> what, id |-> "none"]

\* shipping-labels.ts:152
NoRatesError(shipment) == [what |-> "No shipping rates available", id |-> shipment.id]

\* the request a client method hands to its SDK / fetch: part_000:35, 81, 112
\* and part_008:292 (rate: the rate handed to Shipment.buy); the client
\* methods call the SDK directly, CircuitBreaker.execute is not involved
Request(op, rate) == [op |-> op, via |-> "direct", rate |-> rate, out |-> "pending"]

Settle(calls, out) == [calls EXCEPT ![Len(calls)].out = out]

\* variant of HasNoRates: only a missing list is detected
HasNoRatesMissingOnly(shipment) == ~shipment.hasRates

\* shipping-labels.ts:149, !shipment.rates || shipment.rates.length === 0
HasNoRates(shipment) == ~shipment.hasRates \/ Len(shipment.rates) = 0

\* String.prototype.toLowerCase on the carrier names in use
Lower(name) ==
    CASE name = "UPS" -> "ups"
      [] name = "FedEx" -> "fedex"
      [] name = "USPS" -> "usps"
      [] name = "FedExDefault" -> "fedexdefault"
      [] name = "FEDEX" -> "fedex"
      [] name = "DHL" -> "dhl"
      [] OTHER -> name

\* carrierLower.includes(pattern) on the lower-case names and patterns in use:
\* "fedexdefault" contains "fedex", "upsdap" contains "ups", "dhlexpress"
\* contains "dhl"; "usps" does not contain "ups"
Includes(name, pattern) ==
    \/ name = pattern
    \/ name = "fedexdefault" /\ pattern = "fedex"
    \/ name = "upsdap" /\ pattern = "ups"
    \/ name = "dhlexpress" /\ pattern = "dhl"

\* shipping-labels.ts:165-172, carrierMapping[preferredCarrier] || [lower-cased]
CarrierPatterns(pref) ==
    CASE pref = "FEDEX" -> {"fedex", "fedexdefault"}
      [] pref = "UPS" -> {"ups", "upsdap"}
      [] pref = "USPS" -> {"usps"}
      [] pref = "DHL" -> {"dhl", "dhlexpress"}
      [] OTHER -> {Lower(pref)}

\* Array.prototype.filter
RECURSIVE Filter(_, _)
Filter(q, pats) ==
    IF q = <<>> THEN <<>>
    ELSE IF \E p \in pats : Includes(Lower(Head(q).carrier), p)
         THEN <<Head(q)>> \o Filter(Tail(q), pats)
         ELSE Filter(Tail(q), pats)

\* r.service.includes(words): the words occur consecutively in the service name
ServiceIncludes(service, words) ==
    \E k \in 1..(Len(service) - Len(words) + 1) :
        SubSeq(service, k, k + Len(words) - 1) = words

\* Array.prototype.find by service; NoRate is undefined
FindService(q, words) ==
    IF \E k \in 1..Len(q) : ServiceIncludes(q[k].service, words)
    THEN q[CHOOSE k \in 1..Len(q) :
              /\ ServiceIncludes(q[k].service, words)
              /\ \A j \in 1..(k - 1) : ~ServiceIncludes(q[j].service, words)]
    ELSE NoRate

First(q) == IF Len(q) > 0 THEN q[1] ELSE NoRate

\* variant of SelectRate: the preference is ignored
SelectRateFirst(rates, pref) == First(rates)

\* shipping-labels.ts:156-205, the rate selection
SelectRate(rates, pref) ==
    LET carrierRates == IF pref \in {"none", ""} THEN <<>>
                        ELSE Filter(rates, CarrierPatterns(pref))
        preferred ==
            IF Len(carrierRates) = 0 THEN NoRate
            ELSE IF pref = "FEDEX"
                 THEN IF FindService(carrierRates, <<"PRIORITY", "EXPRESS">>) # NoRate
                      THEN FindService(carrierRates, <<"PRIORITY", "EXPRESS">>)
                      ELSE IF FindService(carrierRates, <<"INTERNATIONAL", "PRIORITY">>) # NoRate
                           THEN FindService(carrierRates, <<"INTERNATIONAL", "PRIORITY">>)
                           ELSE carrierRates[1]
                 ELSE carrierRates[1]
    IN  IF preferred # NoRate THEN preferred ELSE First(rates)

\* the purchase of the first rate of the list
BuyRateFirst(rates, rateId) == First(rates)

\* part_000:75-78, the rate buyLabel hands to Shipment.buy
BuyRate(rates, rateId) ==
    IF \E k \in 1..Len(rates) : rates[k].id = rateId
    THEN rates[CHOOSE k \in 1..Len(rates) :
                  /\ rates[k].id = rateId
                  /\ \A j \in 1..(k - 1) : rates[j].id # rateId]
    ELSE First(rates)

\* variant of LabelResult: assembling the result throws after the purchase
LabelResultThrows(i, shipment, rate, customs) ==
    Caught(ThrownBy("TypeError"), i, "result")

\* part_000:83-89 and shipping-labels.ts:211-243, the label and the result
LabelResult(i, shipment, rate, customs) ==
    [kind |-> "shippingLabel", isError |-> FALSE, validationStatus |-> "CREATED",
     id |-> shipment.id, carrier |-> rate.carrier, service |-> rate.service,
     estimatedCost |-> rate.rate, customs |-> customs,
     international |-> IsInternational(i), warnings |-> <<>>]

\* shipping-labels.ts:46-73 (and customs-calculator.ts:37-47, part_008:286-301):
\* everything up to the first await
Begin(i, key) ==
    /\ lpc = "idle"
    /\ linp' = i
    /\ lkey' = key
    /\ IF i.sync # "ok"
       THEN /\ lpc' = "done"
            /\ lresult' = Caught(ThrownBy(i.sync), i, i.sync)
            /\ UNCHANGED <<lhts, lcalls>>
       ELSE IF IsInternational(i) /\ i.nprod > 0
            THEN /\ lpc' = "hts"
                 /\ lhts' = i.nprod
                 /\ lcalls' = IF key THEN Append(lcalls, Request("htsLookup", NoRate)) ELSE lcalls
                 /\ UNCHANGED lresult
            ELSE /\ lpc' = "shipment"
                 /\ lcalls' = Append(lcalls, Request("createShipment", NoRate))
                 /\ UNCHANGED <<lhts, lresult>>
    /\ UNCHANGED <<lcustoms, lshipment, lselected>>

\* customs-calculator.ts:46-64 and part_008:286-313: getHTSCode settles (a
\* failed lookup yields the fallback code); the loop goes on to the next
\* product, or generateCustoms returns and createCustomsInfo is called
\* (shipping-labels.ts:80-96, part_000:112)
HtsSettles(ok) ==
    /\ lpc = "hts"
    /\ lkey \/ ok
    /\ LET settled == IF lkey THEN Settle(lcalls, IF ok THEN "ok" ELSE "fail") ELSE lcalls
       IN  IF lhts > 1
           THEN /\ lhts' = lhts - 1
                /\ lcalls' = IF lkey THEN Append(settled, Request("htsLookup", NoRate)) ELSE settled
                /\ UNCHANGED lpc
           ELSE /\ lhts' = 0
                /\ lpc' = "customsInfo"
                /\ lcalls' = Append(settled, Request("createCustomsInfo", NoRate))
    /\ UNCHANGED <<linp, lkey, lcustoms, lshipment, lselected, lresult>>

\* shipping-labels.ts:99-104: generateCustoms throws (a lookup answer without a
\* code, a product without description for the fallback table); customs stays
\* null and createShipment is called
GenerateCustomsThrows(ok) ==
    /\ lpc = "hts"
    /\ lkey \/ ok
    /\ lhts' = 0
    /\ LET settled == IF lkey THEN Settle(lcalls, IF ok THEN "ok" ELSE "fail") ELSE lcalls
       IN  lcalls' = Append(settled, Request("createShipment", NoRate))
    /\ lpc' = "shipment"
    /\ UNCHANGED <<linp, lkey, lcustoms, lshipment, lselected, lresult>>

\* shipping-labels.ts:90-120: createCustomsInfo settles; on failure customs
\* stays null; createShipment is called
CustomsInfoSettles(ok) ==
    /\ lpc = "customsInfo"
    /\ lcustoms' = IF ok THEN "obj" ELSE "null"
    /\ lcalls' = Append(Settle(lcalls, IF ok THEN "ok" ELSE "fail"), Request("createShipment", NoRate))
    /\ lpc' = "shipment"
    /\ UNCHANGED <<linp, lkey, lhts, lshipment, lselected, lresult>>

\* part_000:38-40 and shipping-labels.ts:245: createShipment fails
ShipmentFails ==
    /\ lpc = "shipment"
    /\ lcalls' = Settle(lcalls, "fail")
    /\ lresult' = Caught(ThrownBy("EasyPost createShipment failed"), linp, "shipment")
    /\ lpc' = "done"
    /\ UNCHANGED <<linp, lkey, lhts, lcustoms, lshipment, lselected>>

\* shipping-labels.ts:136-209 and part_000:43-81: createShipment returns; the
\* rates are checked, one is selected and buyLabel hands it to Shipment.buy
ShipmentReturns(id, hasRates, rates) ==
    /\ lpc = "shipment"
    /\ LET shipment == [id |-> id, hasRates |-> hasRates, rates |-> rates]
           selected == SelectRate(rates, linp.carrier)
       IN  /\ lshipment' = shipment
           /\ IF HasNoRates(shipment)
              THEN /\ lresult' = Caught(NoRatesError(shipment), linp, "rates")
                   /\ lcalls' = Settle(lcalls, "ok")
                   /\ lpc' = "done"
                   /\ UNCHANGED lselected
              ELSE IF selected = NoRate
                   THEN /\ lresult' = Caught(ThrownBy("TypeError"), linp, "select")
                        /\ lcalls' = Settle(lcalls, "ok")
                        /\ lpc' = "done"
                        /\ UNCHANGED lselected
                   ELSE /\ lselected' = selected
                        /\ lcalls' = Append(Settle(lcalls, "ok"),
                                            Request("buyLabel", BuyRate(rates, selected.id)))
                        /\ lpc' = "buy"
                        /\ UNCHANGED lresult
    /\ UNCHANGED <<linp, lkey, lhts, lcustoms>>

\* part_000:90-92 and shipping-labels.ts:245: Shipment.buy fails
BuyFails ==
    /\ lpc = "buy"
    /\ lcalls' = Settle(lcalls, "fail")
    /\ lresult' = Caught(ThrownBy("EasyPost buyLabel failed"), linp, "buy")
    /\ lpc' = "done"
    /\ UNCHANGED <<linp, lkey, lhts, lcustoms, lshipment, lselected>>

\* part_000:81-89 and shipping-labels.ts:209-243: Shipment.buy returns
BuyReturns ==
    /\ lpc = "buy"
    /\ lcalls' = Settle(lcalls, "ok")
    /\ lresult' = LabelResult(linp, lshipment, BuyRate(lshipment.rates, lselected.id), lcustoms)
    /\ lpc' = "done"
    /\ UNCHANGED <<linp, lkey, lhts, lcustoms, lshipment, lselected>>

(***************************************************************************)
(* generateCustoms, in its two versions: src-tools-customs-calculator.ts   *)
(* ("flat", the one shipping-labels.ts and src-index.ts import) and        *)
(* src/tools/customs-calculator.ts ("tools", part_000:147-228, the one     *)
(* src/index.ts imports), with Context7Client.getHTSCode (part_008).       *)
(***************************************************************************)

Versions == {"flat", "tools"}

\* product.description: a denim item, an item no keyword matches, or absent
Descriptions == {"Denim Jeans", "Widget", "undefined"}

\* product.htsCode: "" is absent
OwnCodes == {"", "9404.90.1000"}

\* product.value in cents: 0 is absent (or zero), 3850 is $38.50
ProductValues == {0, 3850}

Products == [description : Descriptions, htsCode : OwnCodes, value : ProductValues]

ProductLists == UNION {[1..n -> Products] : n \in 0..MaxItems}

\* 40 + Math.floor(Math.random() * 20) at its two ends, in cents
SampleValues == {4000, 5900}

\* validation.ts:456-470, generateSampleProducts: count is 2 or 3, values[k]
\* is the value Math.random gives product k
SampleProducts(count, values) ==
    [k \in 1..count |-> [description |-> "Denim Jeans", htsCode |-> "6204.62.4040",
                         value |-> values[k]]]

\* validation.ts:472-482, in cents
CalculateEstimatedValue(product) ==
    IF product.description = "Denim Jeans" THEN 5000 ELSE 4000

InitCustoms ==
    /\ gpc = "idle"
    /\ gver = "none"
    /\ gkey = FALSE
    /\ gprods = <<>>
    /\ gidx = 0
    /\ gitems = <<>>
    /\ glooked = {}
    /\ gfailed = {}
    /\ gtotal = 0

\* part_008:325-340, fallbackHTSCode: the keyword table; description
\* .toLowerCase() throws a TypeError when description is undefined
FallbackHTSCode(description) ==
    CASE description = "undefined" -> "TypeError"
      [] description = "Denim Jeans" -> "6204.62.4040"
      [] OTHER -> "9999.99.9999"

\* customs-calculator.ts:47 (always) and part_000:194-198 (if (!htsCode)):
\* is getHTSCode called for the product
CallsGetHTSCode(ver, product) == ver = "flat" \/ product.htsCode = ""

\* part_000:200-204: the catch around getHTSCode in the "tools" version; the
\* "flat" version has none
CaughtCode(ver, code) ==
    IF code = "TypeError" /\ ver = "tools" THEN "9999.99.9999" ELSE code

\* customs-calculator.ts:48-56, part_000:207-215, customsItems.push
CustomsItem(product, code) ==
    [description |-> product.description, htsCode |-> code,
     value |-> IF product.value # 0 THEN product.value
               ELSE CalculateEstimatedValue(product)]

\* the total of the first item alone
TotalValueOfFirst(items) == IF Len(items) = 0 THEN 0 ELSE items[1].value

\* customs-calculator.ts:62, part_000:221:
\* customsItems.reduce((sum, item) => sum + item.value, 0)
RECURSIVE TotalValue(_)
TotalValue(items) ==
    IF Len(items) = 0 THEN 0
    ELSE TotalValue(SubSeq(items, 1, Len(items) - 1)) + items[Len(items)].value

\* customs-calculator.ts:46-64, part_000:192-223: the for loop from product k
\* on, up to the next request getHTSCode sends, the return or the throw;
\* without an api key getHTSCode answers from the keyword table (part_008:287)
RECURSIVE RunLoop(_, _, _, _, _)
RunLoop(ver, key, prods, k, items) ==
    IF k > Len(prods) THEN [pc |-> "returned", idx |-> k, items |-> items]
    ELSE IF ~CallsGetHTSCode(ver, prods[k])
         THEN RunLoop(ver, key, prods, k + 1,
                      Append(items, CustomsItem(prods[k], prods[k].htsCode)))
         ELSE IF key THEN [pc |-> "fetch", idx |-> k, items |-> items]
              ELSE LET code == CaughtCode(ver, FallbackHTSCode(prods[k].description))
                   IN  IF code = "TypeError"
                       THEN [pc |-> "thrown", idx |-> k, items |-> items]
                       ELSE RunLoop(ver, key, prods, k + 1,
                                    Append(items, CustomsItem(prods[k], code)))

\* customs-calculator.ts:37-47, part_000:183-198: the call, up to the first
\* request; count is what Math.random makes of the sample product count
GenerateCustoms(ver, key, prods, count, values) ==
    /\ gpc = "idle"
    /\ LET products == IF Len(prods) = 0 THEN SampleProducts(count, values) ELSE prods
           run == RunLoop(ver, key, products, 1, <<>>)
       IN  /\ gprods' = products
           /\ gpc' = run.pc
           /\ gidx' = run.idx
           /\ gitems' = run.items
           /\ glooked' = IF run.pc = "fetch" THEN {run.idx} ELSE {}
           /\ gtotal' = IF run.pc = "returned" THEN TotalValue(run.items) ELSE 0
    /\ gver' = ver
    /\ gkey' = key
    /\ UNCHANGED gfailed

\* part_008:292-313 and the rest of the loop: the hts-lookup request settles;
\* ok: the service answered with a code (response.json()); otherwise (network
\* error, timeout, non-OK status) getHTSCode answers from the keyword table
HtsLookupSettles(ok) ==
    /\ gpc = "fetch"
    /\ LET code == IF ok THEN "service code"
                   ELSE CaughtCode(gver, FallbackHTSCode(gprods[gidx].description))
           run == IF code = "TypeError"
                  THEN [pc |-> "thrown", idx |-> gidx, items |-> gitems]
                  ELSE RunLoop(gver, gkey, gprods, gidx + 1,
                               Append(gitems, CustomsItem(gprods[gidx], code)))
       IN  /\ gpc' = run.pc
           /\ gidx' = run.idx
           /\ gitems' = run.items
           /\ glooked' = IF run.pc = "fetch" THEN glooked \cup {run.idx} ELSE glooked
           /\ gtotal' = IF run.pc = "returned" THEN TotalValue(run.items) ELSE 0
    /\ gfailed' = IF ok THEN gfailed ELSE gfailed \cup {gidx}
    /\ UNCHANGED <<gver, gkey, gprods>>

(***************************************************************************)
(* Address validation: EasyPostService.validateAddress (part_000:95-108),  *)
(* Context7Client.validateAddress (part_008:259-284) and the               *)
(* validate_address tool (src/tools/address-validation.ts:31-42), which    *)
(* wraps the Context7 answer.  Context7Client.validateAddress catches      *)
(* every failure of its request, so the tool's own catch (lines 38-41) is  *)
(* never entered.                                                          *)
(***************************************************************************)

Validators == {"EasyPostService", "Context7Client", "validate_address"}

\* the address argument; "" is an absent field
Addresses ==
    [street1 : {"", "Hauptstr 1"}, city : {"", "Asperg"}, zip : {"", "71679"},
     country : {"", "DE"}]

NoAddress == [street1 |-> "", city |-> "", zip |-> "", country |-> ""]

\* how the external call can end: part_000:97-99, part_008:265-283
CallOutcomes == {"ok", "network error", "non-OK status", "timeout"}

InitAddress ==
    /\ apc = "idle"
    /\ awho = "none"
    /\ akey = FALSE
    /\ aaddr = NoAddress
    /\ aout = "none"
    /\ ares = [kind |-> "none"]

\* the answer of the external service to a call that succeeded: the verified
\* address (Address.createAndVerify) or the validation (response.json())
ServiceAnswer(address) ==
    [kind |-> "returned", address |-> "service", validated |-> TRUE,
     warning |-> FALSE, source |-> "service"]

\* part_000:99-106: the original address with verifications.delivery =
\* {success: false, errors: [{message}]}
VerificationFailed(address) ==
    [kind |-> "returned", address |-> address, validated |-> FALSE,
     warning |-> TRUE, source |-> "EasyPostService"]

\* part_008:316-323, Context7Client.fallbackAddressValidation:
\* {validated: true, address, confidence: 'low', source: 'fallback'}
FallbackAddressValidation(address) ==
    [kind |-> "returned", address |-> address, validated |-> TRUE,
     warning |-> FALSE, source |-> "fallback"]

\* part_000:95-97, part_008:259-265, address-validation.ts:31-34: the call, up
\* to the external request; without an api key Context7Client answers at once
ValidateAddress(who, key, address) ==
    /\ apc = "idle"
    /\ awho' = who
    /\ akey' = key
    /\ aaddr' = address
    /\ IF who # "EasyPostService" /\ ~key
       THEN /\ apc' = "returned"
            /\ ares' = FallbackAddressValidation(address)
       ELSE /\ apc' = "request"
            /\ UNCHANGED ares
    /\ UNCHANGED aout

\* part_000:98-107, part_008:275-283, address-validation.ts:35-37: the
\* external call settles and the validator returns
AddressCallSettles(out) ==
    /\ apc = "request"
    /\ aout' = out
    /\ ares' = IF out = "ok" THEN ServiceAnswer(aaddr)
               ELSE IF awho = "EasyPostService" THEN VerificationFailed(aaddr)
                    ELSE FallbackAddressValidation(aaddr)
    /\ apc' = "returned"
    /\ UNCHANGED <<awho, akey, aaddr>>

(***************************************************************************)
(* parseShippingInput (validation.ts:30-211).  An input string is its      *)
(* lines, each line its cells and the separator between them; a string     *)
(* that JSON.parse accepts is given with the document it parses to.        *)
(* "undefined" stands for an absent value.                                 *)
(***************************************************************************)

Reverse(q) == [k \in 1..Len(q) |-> q[Len(q) + 1 - k]]

RECURSIVE Flatten(_)
Flatten(qs) == IF qs = <<>> THEN <<>> ELSE Head(qs) \o Flatten(Tail(qs))

\* a || b
OrElse(a, b) == IF a \in {"", "undefined"} THEN b ELSE a

\* the documents JSON.parse can return: null, or an object with `to`,
\* `dimensions` and `products` members
JsonAddresses ==
    [present : {TRUE}, street1 : {"undefined", "", "Hauptstr 1"},
     city : {"undefined", "", "Asperg"}, zip : {"undefined", "", "71679"},
     country : {"undefined", "", "DE"}]

NoJsonAddress ==
    [present |-> FALSE, street1 |-> "undefined", city |-> "undefined",
     zip |-> "undefined", country |-> "undefined"]

JsonDocs ==
    [isNull : {FALSE}, to : JsonAddresses \cup {NoJsonAddress},
     dimensions : {"undefined", "valid", "invalid"},
     products : {"undefined", "valid", "invalid"}]
    \cup {[isNull |-> TRUE, to |-> NoJsonAddress, dimensions |-> "undefined",
           products |-> "undefined"]}

NoDoc == [isNull |-> TRUE, to |-> NoJsonAddress, dimensions |-> "undefined",
          products |-> "undefined"]

\* the text of a JSON document: one line; its members are separated by commas
JsonInputs ==
    {[isJson |-> TRUE, doc |-> d, sep |-> "comma",
      lines |-> IF d.isNull THEN <<<<"null">>>> ELSE <<<<"{\"to\":{..}", "..}">>>>] :
        d \in JsonDocs}

\* a 16-column tab-separated row (validation.ts:61)
SampleRow ==
    <<"Nevada", "FEDEX", "Acme", "Bob", "555", "bob@acme.de", "Hauptstr 1", "2. OG",
      "Asperg", "BW", "71679", "DE", "false", "12 x 12 x 4", "5 lbs",
      "(2) Pillow HTS Code: 9404.90.1000 ($38 each)">>

BlankSets == {b \in SUBSET (1..16) : Cardinality(b) <= MaxBlank}

PositionalInputs ==
    {[isJson |-> FALSE, doc |-> NoDoc, sep |-> "tab",
      lines |-> <<[k \in 1..16 |-> IF k \in b THEN "" ELSE SampleRow[k]]>>] :
        b \in BlankSets}

\* header-mode inputs: a header line and a value line, built from one choice
\* of columns per field
StreetColumns ==
    {<<>>, <<<<"Street", "Hauptstr 1">>>>, <<<<"street", "">>>>,
     <<<<"street", "">>, <<"address", "Hauptstr 1">>>>}
CityColumns == {<<>>, <<<<"city", "">>>>, <<<<"city", "Asperg">>>>}
ZipColumns == {<<>>, <<<<"zip", "71679">>>>, <<<<"postal", "71679">>>>}
CountryColumns == {<<>>, <<<<"country", "">>>>, <<<<"country", "DE">>>>}
ProductColumns ==
    {<<>>, <<<<"productdetails", "">>>>, <<<<"productdetails", "[{\"description\":\"Shoes\"}]">>>>,
     <<<<"productdetails", "shoes">>>>}

ColumnChoices ==
    {Flatten(<<s, c, z, n, p>>) :
        s \in StreetColumns, c \in CityColumns, z \in ZipColumns,
        n \in CountryColumns, p \in ProductColumns}

HeaderInputs ==
    {[isJson |-> FALSE, doc |-> NoDoc, sep |-> "comma",
      lines |-> <<[k \in 1..Len(cols) |-> cols[k][1]], [k \in 1..Len(cols) |-> cols[k][2]]>>] :
        cols \in ColumnChoices \ {<<>>}}

\* free text: lines without comma or tab
TextLines == {"To: Bob", "Weight: 5 lbs", "hello"}

TextInputs ==
    {[isJson |-> FALSE, doc |-> NoDoc, sep |-> "none",
      lines |-> [k \in 1..n |-> <<f[k]>>]] :
        f \in [1..MaxLines -> TextLines], n \in 1..MaxLines}

ParseInputs == JsonInputs \cup PositionalInputs \cup HeaderInputs \cup TextInputs

NoParseInput == [isJson |-> FALSE, doc |-> NoDoc, sep |-> "none", lines |-> <<>>]

InitParse ==
    /\ pin = NoParseInput
    /\ pres = [kind |-> "none"]

\* inputData.includes(',') || inputData.includes('\t') (validation.ts:45)
HasSeparator(input) ==
    input.sep # "none" /\ \E k \in 1..Len(input.lines) : Len(input.lines[k]) >= 2

\* String.prototype.trim on one end of a line: with tabs between the cells
\* the leading empty cells are white space; <<>> is a line that was white
\* space altogether
RECURSIVE DropEmpty(_)
DropEmpty(line) ==
    IF line = <<>> THEN <<>>
    ELSE IF Head(line) = "" THEN DropEmpty(Tail(line)) ELSE line

TrimLineStart(line, sep) ==
    IF sep = "tab" THEN DropEmpty(line)
    ELSE IF line = <<"">> THEN <<>> ELSE line

RECURSIVE TrimStart(_, _)
TrimStart(lines, sep) ==
    IF lines = <<>> THEN <<>>
    ELSE IF TrimLineStart(Head(lines), sep) = <<>> THEN TrimStart(Tail(lines), sep)
         ELSE <<TrimLineStart(Head(lines), sep)>> \o Tail(lines)

\* csvData.trim().split('\n') (validation.ts:55): the lines of the trimmed
\* string; the empty string has one empty line
TrimmedLines(lines, sep) ==
    LET front == TrimStart(lines, sep)
        back == TrimStart([k \in 1..Len(front) |-> Reverse(Reverse(front)[k])], sep)
        both == [k \in 1..Len(back) |-> Reverse(Reverse(back)[k])]
    IN  IF both = <<>> THEN <<<<"">>>> ELSE both

\* firstLine[k] (validation.ts:63-90), k counted from 0
Field(line, k) == IF k < Len(line) THEN line[k + 1] ELSE "undefined"

\* validation.ts:131-151, parseProductDetails: always one product
ParseProductDetails(text) == "1 product"

\* String.prototype.toUpperCase on the values that can stand in field 1
ToUpperCase(v) ==
    CASE v = "Acme" -> "ACME"
      [] v = "Bob" -> "BOB"
      [] v = "bob@acme.de" -> "BOB@ACME.DE"
      [] OTHER -> v

\* validation.ts:62-92, the positional mode
ParsePositional(line) ==
    [kind |-> "record", mode |-> "positional",
     recipient |-> [street1 |-> OrElse(Field(line, 6), ""),
                    city |-> OrElse(Field(line, 8), ""),
                    zip |-> OrElse(Field(line, 10), ""),
                    country |-> OrElse(Field(line, 11), "US")],
     productDetails |-> IF Field(line, 15) \in {"", "undefined"} THEN "[]"
                        ELSE ParseProductDetails(Field(line, 15)),
     shipFromState |-> OrElse(Field(line, 0), "California"),
     preferredCarrier |-> OrElse(ToUpperCase(Field(line, 1)), "null")]

\* header.trim().toLowerCase() on the header names in use
LowerHeader(h) == IF h = "Street" THEN "street" ELSE h

\* validation.ts:98-101: data[name] after the forEach; a later column of the
\* same name overwrites an earlier one, a missing value is ''
Data(headers, values, name) ==
    LET hits == {k \in 1..Len(headers) : LowerHeader(headers[k]) = name}
    IN  IF hits = {} THEN "undefined"
        ELSE LET k == CHOOSE k \in hits : \A j \in hits : j <= k
             IN  IF k <= Len(values) THEN values[k] ELSE ""

\* JSON.parse accepts the text
IsJsonText(text) == text = "[{\"description\":\"Shoes\"}]"

\* validation.ts:107-128: the record the header mode returns; a productdetails
\* cell that is JSON text is parsed
ParseHeadersLenient(headers, values) ==
    [kind |-> "record", mode |-> "header",
     recipient |-> [street1 |-> OrElse(Data(headers, values, "street"),
                                       Data(headers, values, "address")),
                    city |-> Data(headers, values, "city"),
                    zip |-> OrElse(Data(headers, values, "zip"),
                                   Data(headers, values, "postal")),
                    country |-> OrElse(Data(headers, values, "country"), "US")],
     productDetails |-> IF IsJsonText(Data(headers, values, "productdetails"))
                        THEN "1 product" ELSE "[]",
     shipFromState |-> "undefined", preferredCarrier |-> "undefined"]

\* validation.ts:95-128, the header mode; JSON.parse(data.productdetails)
\* throws a SyntaxError on a cell that is not JSON
ParseHeaders(headers, values) ==
    IF /\ Data(headers, values, "productdetails") \notin {"", "undefined"}
       /\ ~IsJsonText(Data(headers, values, "productdetails"))
    THEN [kind |-> "throws", error |-> "SyntaxError"]
    ELSE ParseHeadersLenient(headers, values)

\* validation.ts:54-129, parseCSVInput; split(/[\t]/) leaves a line without
\* tabs in one piece
ParseCSVInput(input) ==
    LET lines == TrimmedLines(input.lines, input.sep)
        firstLine == IF input.sep = "tab" THEN lines[1] ELSE <<"the line">>
    IN  IF Len(lines) = 1 /\ Len(firstLine) > 10
        THEN ParsePositional(firstLine)
        ELSE ParseHeaders(lines[1], IF Len(lines) >= 2 THEN lines[2] ELSE <<>>)

\* validation.ts:153-211, parseTextInput: a line without comma has one part,
\* the name
ParseTextInput(input) ==
    [kind |-> "record", mode |-> "text",
     recipient |-> IF \E k \in 1..Len(input.lines) : input.lines[k] = <<"To: Bob">>
                   THEN [street1 |-> "", city |-> "", zip |-> "", country |-> "US"]
                   ELSE [street1 |-> "undefined", city |-> "undefined",
                         zip |-> "undefined", country |-> "undefined"],
     productDetails |-> "[]",
     shipFromState |-> "undefined", preferredCarrier |-> "undefined"]

\* validation.ts:33-42: JSON.parse and the schemas accept the input; z.string()
\* accepts the empty string
JsonAccepted(input) ==
    /\ input.isJson /\ ~input.doc.isNull
    /\ input.doc.to.present
    /\ "undefined" \notin {input.doc.to.street1, input.doc.to.city, input.doc.to.zip,
                          input.doc.to.country}
    /\ input.doc.dimensions # "invalid"
    /\ input.doc.products # "invalid"

\* validation.ts:30-52
ParseShippingInputResult(input) ==
    IF JsonAccepted(input)
    THEN [kind |-> "record", mode |-> "json",
          recipient |-> [street1 |-> input.doc.to.street1, city |-> input.doc.to.city,
                         zip |-> input.doc.to.zip, country |-> input.doc.to.country],
          productDetails |-> IF input.doc.products = "valid" THEN "1 product" ELSE "[]",
          shipFromState |-> "undefined", preferredCarrier |-> "undefined"]
    ELSE IF HasSeparator(input) THEN ParseCSVInput(input)
         ELSE ParseTextInput(input)

\* a call of parseShippingInput
ParseShippingInput(input) ==
    /\ pres.kind = "none"
    /\ pin' = input
    /\ pres' = ParseShippingInputResult(input)

(***************************************************************************)
(* convertAndBuffer: src-tools-weight-converter.ts:29-58 ("flat", the one  *)
(* the tools import) and weightConverter.convertAndBuffer of               *)
(* validation.ts:213-233 ("validation").  Pounds are counted in hundredths *)
(* of a pound and ounces in units of 1/500 oz, which makes 16 oz per       *)
(* pound, 15% and 85% exact on every input used.                           *)
(***************************************************************************)

\* weightLbs, in hundredths of a pound: up to MaxCentiLbs, and 5 lb and 10 lb
\* (src-types-shipping.ts:125, 151)
WeightsLbs == (0..MaxCentiLbs) \cup {500, 1000}

\* the weightLbs and quantity of a product; 0 is absent (or 0, which || treats
\* alike)
WeightProducts == [weightLbs : {0, 50, 150}, quantity : {0, 1, 2}]

WeightProductLists == UNION {[1..n -> WeightProducts] : n \in 0..MaxItems}

InitWeight ==
    /\ wver = "none"
    /\ wlbs = 0
    /\ wprods = <<>>
    /\ wres = [kind |-> "none"]

Max(a, b) == IF a >= b THEN a ELSE b

\* validation.ts:484-486, convertToOunces: weightLbs * 16, hundredths of a
\* pound to 1/500 oz
ConvertToOunces(lbs) == 80 * lbs

\* a || b on numbers
OrDefault(a, b) == IF a = 0 THEN b ELSE a

\* weight-converter.ts:34-35, the reduce over productDetails
RECURSIVE ProductWeightOz(_)
ProductWeightOz(products) ==
    IF products = <<>> THEN 0
    ELSE ProductWeightOz(SubSeq(products, 1, Len(products) - 1))
         + ConvertToOunces(OrDefault(products[Len(products)].weightLbs, 150))
           * OrDefault(products[Len(products)].quantity, 1)

\* x * (p / 100)
PercentOf(x, p) == (x * p) \div 100

\* variant of ConvertAndBuffer: without the 85% floor of lines 47-49
ConvertAndBufferNoFloor(lbs, products) ==
    LET fullParcelOz == ConvertToOunces(lbs) + ProductWeightOz(products)
        bufferAmount == Max(250, PercentOf(fullParcelOz, BufferPercent))
    IN  [kind |-> "returned", fullParcelOz |-> fullParcelOz,
         reportedWeightOz |-> Max(500, fullParcelOz - bufferAmount),
         bufferAmount |-> bufferAmount, productWeightOz |-> ProductWeightOz(products)]

\* weight-converter.ts:29-58
ConvertAndBuffer(lbs, products) ==
    LET weightOz == ConvertToOunces(lbs)
        productWeightOz == ProductWeightOz(products)
        fullParcelOz == weightOz + productWeightOz
        bufferAmount == Max(250, PercentOf(fullParcelOz, BufferPercent))
        reportedWeight == fullParcelOz - bufferAmount
        minReportedWeight == Max(500, PercentOf(fullParcelOz, 85))
        finalReportedWeight == Max(minReportedWeight, reportedWeight)
    IN  [kind |-> "returned", fullParcelOz |-> fullParcelOz,
         reportedWeightOz |-> finalReportedWeight,
         bufferAmount |-> bufferAmount, productWeightOz |-> productWeightOz]

\* validation.ts:213-233: the object returned has two members, and
\* fullParcelOz is Math.max(reportedWeight, fullParcelOz * 0.85)
ConvertAndBufferValidation(lbs, products) ==
    LET fullParcelOz == ConvertToOunces(lbs) + ProductWeightOz(products)
        bufferAmount == Max(250, PercentOf(fullParcelOz, BufferPercent))
        reportedWeight == fullParcelOz - bufferAmount
    IN  [kind |-> "returned",
         fullParcelOz |-> Max(reportedWeight, PercentOf(fullParcelOz, 85)),
         reportedWeightOz |-> Max(500, reportedWeight)]

\* a call of convertAndBuffer
ConvertAndBufferCall(ver, lbs, products) ==
    /\ wres.kind = "none"
    /\ wver' = ver
    /\ wlbs' = lbs
    /\ wprods' = products
    /\ wres' = IF ver = "flat" THEN ConvertAndBuffer(lbs, products)
               ELSE ConvertAndBufferValidation(lbs, products)

(***************************************************************************)
(* selectShipFromAddress (src-utils-validation.ts:348-399) and the company *)
(* it takes from generateDynamicCompanyInfo (236-346).                     *)
(***************************************************************************)

\* values of shippingInput.shipFromState; "undefined" stands for an absent field
ShipFromStates ==
    {"undefined", "", "California", "CALIFORNIA", "ca", "CA", "Nevada", "nv",
     "NV", "Texas"}

\* values of shippingInput.recipient.state
RecipientStates == {"undefined", "CA", "ca", "Nevada", "NV", "TX"}

\* values of shippingInput.productDetails
ShipFromProducts ==
    {<<>>, <<[htsCode |-> "9404.90.1000", description |-> "Pillow"]>>,
     <<[htsCode |-> "8517.62.0000", description |-> "Phone"]>>}

ShipFromInputs ==
    [shipFromState : ShipFromStates,
     recipient : [country : {"US", "DE", "undefined"}, state : RecipientStates],
     productDetails : ShipFromProducts]

NoShipFromInput ==
    [shipFromState |-> "undefined",
     recipient |-> [country |-> "undefined", state |-> "undefined"],
     productDetails |-> <<>>]

InitShipFrom == sinp = NoShipFromInput /\ sres = [kind |-> "none"]

\* x?.toUpperCase() on the state values above
UpperState(v) ==
    CASE v \in {"California", "CALIFORNIA"} -> "CALIFORNIA"
      [] v \in {"ca", "CA"} -> "CA"
      [] v = "Nevada" -> "NEVADA"
      [] v \in {"nv", "NV"} -> "NV"
      [] v = "Texas" -> "TEXAS"
      [] v = "TX" -> "TX"
      [] OTHER -> v

\* validation.ts:236-346, the company of the identity chosen from the first
\* product's HTS prefix
GenerateDynamicCompanyInfo(productDetails) ==
    IF Len(productDetails) = 0 THEN "Premium Home & Wellness Products"
    ELSE CASE productDetails[1].htsCode = "9404.90.1000" -> "SleepWell Bedding Co."
           [] productDetails[1].htsCode = "8517.62.0000" -> "Tech Gadgets Direct"
           [] OTHER -> "Premium Home & Wellness Products"

LosAngeles(company) ==
    [kind |-> "address", company |-> company, street1 |-> "1234 S Broadway",
     city |-> "Los Angeles", state |-> "CA", zip |-> "90015", country |-> "US"]

LasVegas(company) ==
    [kind |-> "address", company |-> company \o " - NV",
     street1 |-> "3000 Paradise Rd", city |-> "Las Vegas", state |-> "NV",
     zip |-> "89109", country |-> "US"]

\* the selection by the recipient's state alone
SelectShipFromAddressByRecipient(shippingInput) ==
    LET company == GenerateDynamicCompanyInfo(shippingInput.productDetails)
        recipientState == UpperState(shippingInput.recipient.state)
    IN  IF recipientState \in {"CALIFORNIA", "CA"} THEN LosAngeles(company)
        ELSE IF recipientState \in {"NEVADA", "NV"} THEN LasVegas(company)
        ELSE LosAngeles(company)

\* validation.ts:348-399
SelectShipFromAddress(shippingInput) ==
    LET company == GenerateDynamicCompanyInfo(shippingInput.productDetails)
        own == UpperState(shippingInput.shipFromState)
        shipFromState ==
            IF own \in {"undefined", ""} /\ shippingInput.recipient.country = "US"
            THEN UpperState(shippingInput.recipient.state)
            ELSE own
    IN  IF shipFromState \in {"CALIFORNIA", "CA"} THEN LosAngeles(company)
        ELSE IF shipFromState \in {"NEVADA", "NV"} THEN LasVegas(company)
        ELSE LosAngeles(company)

SelectShipFromAddressCall(shippingInput) ==
    /\ sinp' = shippingInput
    /\ sres' = SelectShipFromAddress(shippingInput)

(***************************************************************************)
(* getShippingRates (src-tools-rate-fetcher.ts:31-92) with the             *)
(* EasyPostService methods it calls (part_000:16-41 and 128-143).          *)
(***************************************************************************)

\* getShippingRates reads neither productDetails nor preferredCarrier after
\* the synchronous steps
FetchInputs == {i \in Inputs : i.nprod = 0 /\ i.carrier = "none"}

InitFetch ==
    /\ fpc = "idle"
    /\ finp = NoInput
    /\ fshipment = "none"
    /\ fcalls = <<>>
    /\ fres = [kind |-> "none"]

\* rate-fetcher.ts:79-91, the catch block
FetchCaught(err) ==
    [kind |-> "failure", isError |-> TRUE, status |-> "FAILED", error |-> err,
     warnings |-> <<"Failed to fetch shipping rates">>]

\* a request that purchases the label
RatesRequestBuying(id) == Request("buyLabel", NoRate)

\* rate-fetcher.ts:57 and part_000:130: the request getShipmentRates sends,
\* Shipment.retrieve(shipmentId)
RatesRequest(id) == Request("getShipmentRates", NoRate)

\* Array.prototype.sort((a, b) => a.rate - b.rate): rate r put in its place in
\* the sorted list q
RECURSIVE InsertByRate(_, _)
InsertByRate(r, q) ==
    IF Len(q) = 0 THEN <<r>>
    ELSE IF r.rate < q[1].rate THEN <<r>> \o q
    ELSE <<q[1]>> \o InsertByRate(r, Tail(q))

\* rate-fetcher.ts:70
RECURSIVE SortByRate(_)
SortByRate(rates) ==
    IF Len(rates) = 0 THEN <<>>
    ELSE InsertByRate(rates[Len(rates)], SortByRate(SubSeq(rates, 1, Len(rates) - 1)))

\* rate-fetcher.ts:71-72, the reduce over a list sorted in place at line 70;
\* undefined for an empty list
CheapestRate(rates) == IF Len(rates) = 0 THEN NoRate ELSE SortByRate(rates)[1]

\* rate-fetcher.ts:32-56: the synchronous steps (parseShippingInput,
\* selectShipFromAddress, convertAndBuffer, the shipmentData literal) and the
\* createShipment request; i.sync names the step that throws, or is "ok"
FetchBegin(i) ==
    /\ fpc = "idle"
    /\ finp' = i
    /\ IF i.sync # "ok"
       THEN /\ fpc' = "done"
            /\ fres' = FetchCaught(ThrownBy(i.sync))
            /\ UNCHANGED fcalls
       ELSE /\ fpc' = "shipment"
            /\ fcalls' = Append(fcalls, Request("createShipment", NoRate))
            /\ UNCHANGED fres
    /\ UNCHANGED fshipment

\* part_000:38-40 and rate-fetcher.ts:79: Shipment.create fails
FetchShipmentFails ==
    /\ fpc = "shipment"
    /\ fcalls' = Settle(fcalls, "fail")
    /\ fres' = FetchCaught(ThrownBy("EasyPost createShipment failed"))
    /\ fpc' = "done"
    /\ UNCHANGED <<finp, fshipment>>

\* rate-fetcher.ts:56-57: createShipment returns and getShipmentRates is called
FetchShipmentReturns(id) ==
    /\ fpc = "shipment"
    /\ fshipment' = id
    /\ fcalls' = Append(Settle(fcalls, "ok"), RatesRequest(id))
    /\ fpc' = "rates"
    /\ UNCHANGED <<finp, fres>>

\* part_000:140-142: Shipment.retrieve fails
FetchRatesFails ==
    /\ fpc = "rates"
    /\ fcalls' = Settle(fcalls, "fail")
    /\ fres' = FetchCaught(ThrownBy("EasyPost getShipmentRates failed"))
    /\ fpc' = "done"
    /\ UNCHANGED <<finp, fshipment>>

\* part_000:130-139 and rate-fetcher.ts:59-77: Shipment.retrieve returns; a
\* shipment without a rates array makes shipment.rates.map throw
FetchRatesReturn(hasRates, rates) ==
    /\ fpc = "rates"
    /\ fcalls' = Settle(fcalls, "ok")
    /\ fres' = IF ~hasRates THEN FetchCaught(ThrownBy("EasyPost getShipmentRates failed"))
               ELSE [kind |-> "rates", shipmentId |-> fshipment,
                     recipient |-> [country |-> finp.country, city |-> finp.city],
                     availableRates |-> SortByRate(rates),
                     cheapestRate |-> CheapestRate(rates)]
    /\ fpc' = "done"
    /\ UNCHANGED <<finp, fshipment>>

Init ==
    /\ InitBreaker /\ InitRetry /\ InitLabel /\ InitCustoms /\ InitAddress
    /\ InitParse /\ InitWeight /\ InitShipFrom /\ InitFetch
    /\ healed = FALSE

BreakerNext ==
    \/ \E th \in Thresholds, to \in Timeouts : NewBreaker(th, to) /\ UNCHANGED exceptBreaker
    \/ \E c \in Calls, fb \in BOOLEAN : Execute(c, fb) /\ UNCHANGED exceptBreaker
    \/ \E c \in Calls : FnSucceeds(c) /\ UNCHANGED exceptBreaker
    \/ \E c \in Calls : FnFails(c) /\ UNCHANGED exceptBreaker
    \/ Tick /\ UNCHANGED exceptBreaker

BreakerSpec == Init /\ [][BreakerNext]_vars

\* fn stops failing
Heal ==
    /\ live /\ ~healed
    /\ healed' = TRUE
    /\ UNCHANGED cbVars

\* the slot a new execute call takes: the lowest one that is free
FreeSlot(c) == call[c].pc = "idle" /\ \A d \in 1..(c - 1) : call[d].pc # "idle"

\* the breaker with a service that recovers.  A failure is taken only while
\* the clock of the model can still run through the timeout after it; the
\* calls carry no fallback, which has no part in the breaker's transitions.
RecoveryNext ==
    \/ \E th \in Thresholds, to \in Timeouts :
          NewBreaker(th, to) /\ UNCHANGED <<healed, exceptRecovery>>
    \/ \E c \in Calls :
          FreeSlot(c) /\ Execute(c, FALSE) /\ UNCHANGED <<healed, exceptRecovery>>
    \/ \E c \in Calls : FnSucceeds(c) /\ UNCHANGED <<healed, exceptRecovery>>
    \/ /\ ~healed /\ now + timeout <= MaxTime
       /\ \E c \in Calls : FnFails(c) /\ UNCHANGED <<healed, exceptRecovery>>
    \/ Tick /\ UNCHANGED <<healed, exceptRecovery>>
    \/ Heal /\ UNCHANGED exceptRecovery

\* time advances, execute keeps being called and every fn invocation settles
RecoveryFairness ==
    /\ WF_vars(Tick /\ UNCHANGED <<healed, exceptRecovery>>)
    /\ WF_vars(\E c \in Calls :
                  FreeSlot(c) /\ Execute(c, FALSE) /\ UNCHANGED <<healed, exceptRecovery>>)
    /\ WF_vars(\E c \in Calls : FnSucceeds(c) /\ UNCHANGED <<healed, exceptRecovery>>)

RecoverySpec == Init /\ [][RecoveryNext]_vars /\ RecoveryFairness

RetryNext ==
    \/ \E m \in MaxRetriesArgs, b \in BaseDelays : RetryCall(m, b) /\ UNCHANGED exceptRetry
    \/ \E d \in 0..MaxFnTime : RetryFnResolves(d) /\ UNCHANGED exceptRetry
    \/ \E e \in ErrMsgs, d \in 0..MaxFnTime : RetryFnRejects(e, d) /\ UNCHANGED exceptRetry
    \/ \E lag \in 0..MaxTimerLag : RetryTimerFires(lag) /\ UNCHANGED exceptRetry

RetrySpec == Init /\ [][RetryNext]_vars

LabelNext ==
    \/ /\ lpc = "idle"
       /\ \E i \in Inputs, key \in BOOLEAN : Begin(i, key) /\ UNCHANGED exceptLabel
    \/ \E ok \in BOOLEAN : HtsSettles(ok) /\ UNCHANGED exceptLabel
    \/ \E ok \in BOOLEAN : GenerateCustomsThrows(ok) /\ UNCHANGED exceptLabel
    \/ \E ok \in BOOLEAN : CustomsInfoSettles(ok) /\ UNCHANGED exceptLabel
    \/ ShipmentFails /\ UNCHANGED exceptLabel
    \/ /\ lpc = "shipment"
       /\ \E id \in ShipmentIds, hasRates \in BOOLEAN, rates \in RateLists :
             /\ hasRates \/ rates = <<>>
             /\ ShipmentReturns(id, hasRates, rates)
             /\ UNCHANGED exceptLabel
    \/ BuyFails /\ UNCHANGED exceptLabel
    \/ BuyReturns /\ UNCHANGED exceptLabel

\* In the Next formulas the guard of an action stands ahead of the quantifier
\* over its inputs, so that the inputs are enumerated only where it is enabled.

\* the orchestrator is the program's entry point
Spec == Init /\ [][LabelNext]_vars

CustomsNext ==
    \/ /\ gpc = "idle"
       /\ \E ver \in Versions, key \in BOOLEAN, prods \in ProductLists, count \in 2..3 :
             /\ Len(prods) > 0 => count = 2
             /\ \E values \in IF Len(prods) = 0 THEN [1..count -> SampleValues]
                              ELSE {<<>>} :
                   GenerateCustoms(ver, key, prods, count, values)
             /\ UNCHANGED exceptCustoms
    \/ \E ok \in BOOLEAN : HtsLookupSettles(ok) /\ UNCHANGED exceptCustoms

CustomsSpec == Init /\ [][CustomsNext]_vars

AddressNext ==
    \/ /\ apc = "idle"
       /\ \E who \in Validators, key \in BOOLEAN, address \in Addresses :
             ValidateAddress(who, key, address) /\ UNCHANGED exceptAddress
    \/ \E out \in CallOutcomes : AddressCallSettles(out) /\ UNCHANGED exceptAddress

AddressSpec == Init /\ [][AddressNext]_vars

ParseNext ==
    /\ pres.kind = "none"
    /\ \E input \in ParseInputs : ParseShippingInput(input) /\ UNCHANGED exceptParse

ParseSpec == Init /\ [][ParseNext]_vars

WeightNext ==
    /\ wres.kind = "none"
    /\ \E ver \in {"flat", "validation"}, lbs \in WeightsLbs, products \in WeightProductLists :
          ConvertAndBufferCall(ver, lbs, products) /\ UNCHANGED exceptWeight

WeightSpec == Init /\ [][WeightNext]_vars

ShipFromNext ==
    /\ sres.kind = "none"
    /\ \E shippingInput \in ShipFromInputs :
          SelectShipFromAddressCall(shippingInput) /\ UNCHANGED exceptShipFrom

ShipFromSpec == Init /\ [][ShipFromNext]_vars

FetchNext ==
    \/ /\ fpc = "idle"
       /\ \E i \in FetchInputs : FetchBegin(i) /\ UNCHANGED exceptFetch
    \/ FetchShipmentFails /\ UNCHANGED exceptFetch
    \/ \E id \in ShipmentIds : FetchShipmentReturns(id) /\ UNCHANGED exceptFetch
    \/ FetchRatesFails /\ UNCHANGED exceptFetch
    \/ /\ fpc = "rates"
       /\ \E hasRates \in BOOLEAN, rates \in RateLists :
             /\ hasRates \/ rates = <<>>
             /\ FetchRatesReturn(hasRates, rates)
             /\ UNCHANGED exceptFetch

FetchSpec == Init /\ [][FetchNext]_vars

(***************************************************************************)
(* Claims about the CircuitBreaker, checked under BreakerSpec.             *)
(***************************************************************************)

NoneInFlight == \A c \in Calls : call[c].pc = "idle"

\* C2: with execute calls made one at a time on a fresh breaker, between calls
\* the breaker is CLOSED exactly while fewer than `threshold` fn failures have
\* happened since the last fn success and OPEN from the threshold-th consecutive
\* failure on; failureCount is that number of consecutive failures (a success
\* resets it to 0).
C2_TripsAtThreshold ==
    (live /\ ~overlap /\ NoneInFlight) =>
        /\ failureCount = streak
        /\ (state = "CLOSED") <=> (streak < threshold)
        /\ (state = "OPEN") <=> (streak >= threshold)

\* C2 witness: the default breaker (threshold 5) has just been tripped by its
\* fifth consecutive failure, calls made one at a time.
C2_Witness ==
    /\ live /\ ~overlap /\ NoneInFlight
    /\ threshold = DefaultThreshold
    /\ streak = threshold
    /\ state = "OPEN"
    /\ ret.res = "rethrow"

\* C3: an execute call made while the breaker is OPEN and inside its timeout
\* does not invoke fn, returns fallback() if a fallback was supplied and throws
\* the 503 AppError otherwise, and leaves state, failureCount and
\* lastFailureTime unchanged.
C3_OpenRejects ==
    [][\A c \in Calls, fb \in BOOLEAN :
          (Execute(c, fb) /\ state = "OPEN" /\ now - lastFailureTime < timeout) =>
              /\ call'[c].pc = "idle"
              /\ ret'.inv = 0
              /\ ret'.res = IF fb THEN "fallback" ELSE "error503"
              /\ state' = state
              /\ failureCount' = failureCount
              /\ lastFailureTime' = lastFailureTime]_vars

\* C3 witness: a call was answered with the fallback without invoking fn while
\* the breaker is OPEN inside its timeout.
C3_Witness ==
    /\ state = "OPEN" /\ now - lastFailureTime < timeout
    /\ ret.res = "fallback" /\ ret.inv = 0

C5_HalfOpenFailureOpens ==
    [][\A c \in Calls : (FnFails(c) /\ call[c].half) => state' = "OPEN"]_vars

(***************************************************************************)
(* Claims about retryWithBackoff, checked under RetrySpec.                 *)
(***************************************************************************)

FailedInvocations == {k \in 1..Len(routs) : ~routs[k].ok}

\* C7: retryWithBackoff makes at most maxRetries+1 invocations of fn and is
\* never stuck while fn settles and timers fire; it returns the value of the
\* first successful invocation without invoking fn again; when maxRetries+1
\* invocations have failed it throws an AppError with statusCode 500 whose
\* message carries the attempt count maxRetries+1 and the message of the last
\* failure.
C7_RetryTerminates ==
    /\ rpc # "idle" => Len(rstarts) <= maxRetries + 1
    /\ rpc \in {"calling", "sleeping"} => ENABLED RetryNext
    /\ rpc = "returned" =>
          /\ Len(routs) >= 1 /\ routs[Len(routs)].ok
          /\ FailedInvocations = 1..(Len(routs) - 1)
          /\ Len(rstarts) = Len(routs)
          /\ rres.kind = "value" /\ rres.value = Len(routs)
    /\ rpc = "thrown" =>
          /\ Len(rstarts) = maxRetries + 1
          /\ FailedInvocations = 1..(maxRetries + 1)
          /\ rres.kind = "AppError" /\ rres.statusCode = 500
          /\ rres.attempts = maxRetries + 1
          /\ rres.last = routs[Len(routs)].msg

\* C7 witness: with the default maxRetries = 3 the fourth invocation has failed
\* with a message other than the first failure's, and the AppError was thrown.
C7_Witness ==
    /\ rpc = "thrown" /\ maxRetries = DefaultMaxRetries
    /\ Len(routs) = 4 /\ routs[1].msg # routs[4].msg
    /\ rres.last = routs[4].msg

\* C8: the timer set after failed attempt k (k = 0 .. maxRetries-1) has delay
\* baseDelay * 2^k; the next invocation of fn starts no earlier than that delay
\* after the failure; no timer is set after the final failed attempt or after a
\* success, which end the call at once.
C8_BackoffDelays ==
    /\ \A k \in 1..Len(rwaits) :
          rwaits[k] = IF k = 1 THEN baseDelay ELSE 2 * rwaits[k - 1]
    /\ Len(rwaits) = IF Cardinality(FailedInvocations) < maxRetries
                     THEN Cardinality(FailedInvocations) ELSE maxRetries
    /\ \A k \in 2..Len(rstarts) : rstarts[k] >= routs[k - 1].at + rwaits[k - 1]
    /\ rpc \in {"returned", "thrown"} => rnow = routs[Len(routs)].at
    /\ rpc = "sleeping" => ~routs[Len(routs)].ok /\ Len(routs) <= maxRetries

\* C8 witness: with the defaults (maxRetries 3, baseDelay 2000) all four
\* invocations failed after waits of 2 s, 4 s and 8 s.
C8_Witness ==
    /\ rpc = "thrown"
    /\ maxRetries = DefaultMaxRetries /\ baseDelay = DefaultBaseDelay
    /\ rwaits = <<2000, 4000, 8000>>
    /\ Len(rstarts) = 4

(***************************************************************************)
(* Claims about createShippingLabel, checked under Spec.                   *)
(***************************************************************************)

LastCall == lcalls[Len(lcalls)]

BuyCalls == {k \in 1..Len(lcalls) : lcalls[k].op = "buyLabel"}

\* C1: createShippingLabel never throws and is never stuck while its requests
\* settle: a finished run returned either a shippingLabel result or a failure
\* payload with isError = true, validationStatus 'FAILED', the message of the
\* error that ended the run (parse or preparation, create-shipment, the rate
\* check, buy-label) and the debugInfo of the input; a failed customs step does
\* not end the run.
C1_AlwaysResponds ==
    /\ lresult.kind \in {"none", "shippingLabel", "failure"}
    /\ lpc = "done" <=> lresult.kind # "none"
    /\ lpc \notin {"idle", "done"} => ENABLED LabelNext
    /\ (lpc # "idle" /\ linp.sync # "ok") => lresult.kind = "failure"
    /\ (lcalls # <<>> /\ LastCall.out = "fail") =>
          (lresult.kind = "failure" /\ LastCall.op \in {"createShipment", "buyLabel"})
    /\ lresult.kind = "failure" =>
          /\ lresult.isError /\ lresult.validationStatus = "FAILED"
          /\ lresult.error.what =
                IF linp.sync # "ok" THEN linp.sync
                ELSE IF LastCall.out = "fail"
                     THEN IF LastCall.op = "buyLabel" THEN "EasyPost buyLabel failed"
                          ELSE "EasyPost createShipment failed"
                     ELSE "No shipping rates available"
          /\ lresult.debugInfo.parsedRecipient =
                IF linp.sync = "parse" \/ linp.city = "" THEN "N/A" ELSE linp.city
          /\ lresult.debugInfo.isInternational = (linp.sync = "parse" \/ linp.country # "US")
          /\ lresult.debugInfo.weightOz =
                IF linp.sync # "ok" THEN "N/A" ELSE "reportedWeightOz"

\* C1 witness: buy-label, the last step, failed and the run returned the
\* failure payload.
C1_Witness ==
    /\ lpc = "done" /\ lresult.kind = "failure" /\ lresult.isError
    /\ lcalls # <<>>
    /\ LastCall.op = "buyLabel" /\ LastCall.out = "fail"
    /\ lresult.error.what = "EasyPost buyLabel failed"

\* C6: every request EasyPostService and Context7Client send to their external
\* service is issued through CircuitBreaker.execute.
C6_RequestsThroughBreaker ==
    \A k \in 1..Len(lcalls) : lcalls[k].via = "execute"

\* C9: no run makes more than one buy-label call; a run that returned a failure
\* payload has made no successful buy-label call; a run that returned a
\* shippingLabel result has made exactly one buy-label call, and it succeeded.
C9_PurchaseAtomic ==
    /\ Cardinality(BuyCalls) <= 1
    /\ lresult.kind = "failure" => \A k \in BuyCalls : lcalls[k].out # "ok"
    /\ lresult.kind = "shippingLabel" =>
          /\ Cardinality(BuyCalls) = 1
          /\ \A k \in BuyCalls : lcalls[k].out = "ok"
    /\ (lpc = "done" /\ \E k \in BuyCalls : lcalls[k].out = "ok") =>
          lresult.kind = "shippingLabel"

\* C9 witness: a run has returned a shippingLabel result after its buy-label
\* call succeeded.
C9_Witness ==
    /\ lpc = "done" /\ lresult.kind = "shippingLabel"
    /\ BuyCalls # {} /\ \A k \in BuyCalls : lcalls[k].out = "ok"

\* C10: when create-shipment returned a shipment whose rate list is missing or
\* empty, the run has returned a failure payload whose error names that
\* shipment's id, and made no buy-label call.
C10_NoRatesFails ==
    (lshipment # NoShipment /\ (~lshipment.hasRates \/ lshipment.rates = <<>>)) =>
        /\ lpc = "done" /\ lresult.kind = "failure"
        /\ lresult.error.what = "No shipping rates available"
        /\ lresult.error.id = lshipment.id
        /\ BuyCalls = {}

\* C10 witness: create-shipment returned shipment shp_2 with an empty rate
\* list and the run failed naming shp_2.
C10_Witness ==
    /\ lshipment.id = "shp_2" /\ lshipment.hasRates /\ lshipment.rates = <<>>
    /\ lresult.kind = "failure" /\ lresult.error.id = "shp_2"

ShipmentCalls == {k \in 1..Len(lcalls) : lcalls[k].op = "createShipment"}

\* the customs step of the run was entered (shipping-labels.ts:71) and left
\* customs null (shipping-labels.ts:99-104): generateCustoms or
\* createCustomsInfo failed
CustomsStepFailed ==
    /\ linp.sync = "ok" /\ IsInternational(linp) /\ linp.nprod > 0
    /\ ShipmentCalls # {}
    /\ lcustoms = "null"

\* C11: when the customs step of an international shipment with products
\* fails, create-shipment is still called without customs_info and the run goes
\* on to the purchase; the result the run returns carries a non-empty
\* metadata.warnings.
C11_CustomsFailureWarns ==
    /\ (lpc = "shipment" /\ linp.sync = "ok" /\ IsInternational(linp) /\ linp.nprod > 0) =>
          (lcustoms = "null" <=>
              \A k \in 1..Len(lcalls) :
                  ~(lcalls[k].op = "createCustomsInfo" /\ lcalls[k].out = "ok"))
    /\ (CustomsStepFailed /\ lresult.kind = "shippingLabel") =>
          /\ BuyCalls # {}
          /\ lresult.customs = "null"
          /\ lresult.warnings # <<>>

\* C12: whenever create-shipment has been called for a recipient whose country
\* is not 'US', the request carried customs info (shipmentData.customs_info set,
\* with one item per declared product and at least one item), also when the
\* input supplied no products.
C12_InternationalHasCustoms ==
    (ShipmentCalls # {} /\ IsInternational(linp)) => lcustoms = "obj"

\* the rates of the created shipment whose carrier matches the declared
\* preference (none when no preference was declared)
Matching ==
    {k \in 1..Len(lshipment.rates) :
        /\ linp.carrier \notin {"none", ""}
        /\ \E p \in CarrierPatterns(linp.carrier) :
              Includes(Lower(lshipment.rates[k].carrier), p)}

\* the run has selected a rate of the created shipment
HasSelected == lshipment # NoShipment /\ lselected # NoRate

\* C13: when no preferred carrier is declared, or no returned rate's carrier
\* matches the preference, the selected rate is one of the returned rates and
\* none of the returned rates has a lower price, in whatever order they were
\* returned; the selection does not raise.
C13_FallbackIsCheapest ==
    /\ (lshipment # NoShipment /\ ~HasNoRates(lshipment)) =>
          ~(lresult.kind = "failure" /\ lresult.error.what = "TypeError")
    /\ (HasSelected /\ Matching = {}) =>
          /\ \E k \in 1..Len(lshipment.rates) : lshipment.rates[k] = lselected
          /\ \A k \in 1..Len(lshipment.rates) : lselected.rate <= lshipment.rates[k].rate

\* the returned rates whose carrier name contains 'fedex', case-insensitively
FedexRates ==
    {k \in 1..Len(lshipment.rates) : Includes(Lower(lshipment.rates[k].carrier), "fedex")}

FedexWith(words) == {k \in FedexRates : ServiceIncludes(lshipment.rates[k].service, words)}

Least(S) == CHOOSE k \in S : \A j \in S : k <= j

\* C14: with preferred carrier FEDEX and at least one returned rate whose
\* carrier name contains 'fedex', the selected rate is a FedEx rate: the first
\* one whose service contains PRIORITY_EXPRESS if there is one, otherwise the
\* first one whose service contains INTERNATIONAL_PRIORITY if there is one,
\* otherwise the first FedEx rate; it is the rate handed to buy-label, whatever
\* the prices of the other carriers' rates.
C14_FedexPreferred ==
    (HasSelected /\ linp.carrier = "FEDEX" /\ FedexRates # {}) =>
        /\ Includes(Lower(lselected.carrier), "fedex")
        /\ lselected =
              lshipment.rates[
                  IF FedexWith(<<"PRIORITY", "EXPRESS">>) # {}
                  THEN Least(FedexWith(<<"PRIORITY", "EXPRESS">>))
                  ELSE IF FedexWith(<<"INTERNATIONAL", "PRIORITY">>) # {}
                       THEN Least(FedexWith(<<"INTERNATIONAL", "PRIORITY">>))
                       ELSE Least(FedexRates)]
        /\ \A k \in BuyCalls : lcalls[k].rate = lselected

\* C14 witness: the service returned the cheaper UPS rate first, then the
\* FedEx international-priority rate, then the FedEx priority-express rate;
\* the priority-express rate was selected and bought.
C14_Witness ==
    /\ linp.carrier = "FEDEX"
    /\ Len(lshipment.rates) = 3
    /\ lshipment.rates[1].id = "rate_ups"
    /\ lshipment.rates[2].id = "rate_fxp"
    /\ lshipment.rates[3].id = "rate_fxe"
    /\ lselected.id = "rate_fxe"
    /\ lpc = "done" /\ lresult.kind = "shippingLabel"
    /\ lresult.estimatedCost = 55

(***************************************************************************)
(* Claims about generateCustoms, checked under CustomsSpec.                *)
(***************************************************************************)

\* the keyword table's code for a description: the denim code, else the
\* generic placeholder
TableCode(description) ==
    IF description = "Denim Jeans" THEN "6204.62.4040" ELSE "9999.99.9999"

\* C15: every customs item carries its product's own htsCode when the product
\* has one, and no lookup request is sent for such a product; otherwise it
\* carries the code the lookup returned, or, when the lookup failed, the code of
\* the keyword table for the product's description; generateCustoms never
\* throws at a product whose lookup failed.
C15_HtsResolutionOrder ==
    /\ \A k \in 1..Len(gitems) :
          IF gprods[k].htsCode # ""
          THEN gitems[k].htsCode = gprods[k].htsCode /\ k \notin glooked
          ELSE IF k \in gfailed
               THEN gitems[k].htsCode = TableCode(gprods[k].description)
               ELSE k \in glooked => gitems[k].htsCode = "service code"
    /\ \A k \in glooked : gprods[k].htsCode = ""
    /\ gpc = "thrown" => gidx \notin gfailed

(***************************************************************************)
(* Claims about address validation, checked under AddressSpec.             *)
(***************************************************************************)

\* C16: a validator whose external call failed (network error, non-OK status,
\* timeout) has returned, not thrown: it returned the original address,
\* annotated with a failure warning and not reported as validated.
C16_ValidationFailureAnnotated ==
    (apc = "returned" /\ aout \notin {"none", "ok"}) =>
        /\ ares.kind = "returned"
        /\ ares.address = aaddr
        /\ ares.warning
        /\ ~ares.validated

(***************************************************************************)
(* Claims about parseShippingInput, checked under ParseSpec.               *)
(***************************************************************************)

\* C17: parseShippingInput returns a record and does not throw, for every
\* input string: malformed JSON, JSON the schemas reject, CSV/TSV in positional
\* or header mode, free text.
C17_ParseNeverThrows ==
    pres.kind \in {"none", "record"}

Present(v) == v \notin {"", "undefined"}

\* C18: the recipient of every record parseShippingInput returns has street1,
\* city, zip and country present and non-empty, in all input modes.
C18_RecipientComplete ==
    pres.kind = "record" =>
        /\ Present(pres.recipient.street1)
        /\ Present(pres.recipient.city)
        /\ Present(pres.recipient.zip)
        /\ Present(pres.recipient.country)

(***************************************************************************)
(* Claims about convertAndBuffer, checked under WeightSpec; 500 units are  *)
(* one ounce.                                                              *)
(***************************************************************************)

\* C19: for every weightLbs >= 0 and every product list, convertAndBuffer
\* returns 1 oz <= reportedWeightOz <= fullParcelOz.
C19_ReportedWithinBounds ==
    wres.kind = "returned" =>
        /\ 500 <= wres.reportedWeightOz
        /\ wres.reportedWeightOz <= wres.fullParcelOz

\* the total weight as the claim states it: 16 oz per pound of weightLbs plus,
\* per product, 16 oz per pound (default 1.5 lb) times the quantity (default 1)
RECURSIVE StatedProductOz(_, _)
StatedProductOz(products, k) ==
    IF k = 0 THEN 0
    ELSE StatedProductOz(products, k - 1)
         + 80 * (IF products[k].weightLbs = 0 THEN 150 ELSE products[k].weightLbs)
              * (IF products[k].quantity = 0 THEN 1 ELSE products[k].quantity)

StatedFullOz == 80 * wlbs + StatedProductOz(wprods, Len(wprods))

StatedBuffer == Max(250, (15 * StatedFullOz) \div 100)

\* C20 (as stated): convertAndBuffer of weight-converter.ts returns
\* fullParcelOz = the total weight, bufferAmount = max(0.5 oz, 15% of it) and
\* reportedWeightOz = max(1 oz, fullParcelOz - bufferAmount); for (10, []) these
\* are 160, 24 and 136 oz.
C20_BufferFormula ==
    (wres.kind = "returned" /\ wver = "flat") =>
        /\ wres.fullParcelOz = StatedFullOz
        /\ wres.bufferAmount = StatedBuffer
        /\ wres.reportedWeightOz = Max(500, StatedFullOz - StatedBuffer)
        /\ (wlbs = 1000 /\ wprods = <<>>) =>
              /\ wres.fullParcelOz = 160 * 500
              /\ wres.bufferAmount = 24 * 500
              /\ wres.reportedWeightOz = 136 * 500

\* C20 (amended): as C20, but reportedWeightOz = max(1 oz, 85% of fullParcelOz,
\* fullParcelOz - bufferAmount), which is max(1 oz, fullParcelOz - bufferAmount)
\* whenever fullParcelOz is at least 10/3 oz or at most 20/17 oz.
C20_BufferFormulaWithFloor ==
    (wres.kind = "returned" /\ wver = "flat") =>
        /\ wres.fullParcelOz = StatedFullOz
        /\ wres.bufferAmount = StatedBuffer
        /\ wres.reportedWeightOz =
              Max(Max(500, (85 * StatedFullOz) \div 100), StatedFullOz - StatedBuffer)
        /\ (3 * StatedFullOz >= 10 * 500 \/ 17 * StatedFullOz <= 20 * 500) =>
              wres.reportedWeightOz = Max(500, StatedFullOz - StatedBuffer)
        /\ (wlbs = 1000 /\ wprods = <<>>) =>
              /\ wres.fullParcelOz = 160 * 500
              /\ wres.bufferAmount = 24 * 500
              /\ wres.reportedWeightOz = 136 * 500

\* C20 witness: convertAndBuffer(10, []) of weight-converter.ts has returned
\* 160, 24 and 136 oz.
C20_Witness ==
    /\ wver = "flat" /\ wlbs = 1000 /\ wprods = <<>>
    /\ wres.kind = "returned"
    /\ wres.fullParcelOz = 80000 /\ wres.bufferAmount = 12000
    /\ wres.reportedWeightOz = 68000

\* C21: for a single-line tab-separated row of 16 fields, the record comes from
\* the positional mode, its shipFromState is field 0 of the row as written and
\* its recipient.country is field 11 (an empty field giving the default,
\* 'California' and 'US'), whichever fields of the row are empty.
C21_PositionalColumns ==
    (pres.kind # "none" /\ pin.sep = "tab" /\ Len(pin.lines) = 1
        /\ Len(pin.lines[1]) = 16) =>
        /\ pres.kind = "record" /\ pres.mode = "positional"
        /\ pres.shipFromState =
              IF pin.lines[1][1] = "" THEN "California" ELSE pin.lines[1][1]
        /\ pres.recipient.country =
              IF pin.lines[1][12] = "" THEN "US" ELSE pin.lines[1][12]

\* C22: selectShipFromAddress chooses the warehouse from shipFromState alone when
\* it is present (CALIFORNIA/CA in any case gives Los Angeles, NEVADA/NV gives
\* Las Vegas with " - NV" appended to the company); the recipient's state
\* decides only when shipFromState is absent and recipient.country is 'US';
\* every other case gives Los Angeles.
ShipFromAbsent == sinp.shipFromState \in {"undefined", ""}

DecidingState ==
    IF ~ShipFromAbsent THEN sinp.shipFromState
    ELSE IF sinp.recipient.country = "US" THEN sinp.recipient.state
    ELSE "undefined"

RECURSIVE ItemValueSum(_, _)
ItemValueSum(items, k) ==
    IF k > Len(items) THEN 0 ELSE items[k].value + ItemValueSum(items, k + 1)

\* C23: the declaration generateCustoms returns, for a supplied or an
\* auto-generated product list, has one item per product and a totalValue
\* equal to the exact sum of its items' value fields.
C23_TotalIsSumOfItems ==
    gpc = "returned" =>
        /\ Len(gitems) = Len(gprods)
        /\ gtotal = ItemValueSum(gitems, 1)

C23_Witness ==
    /\ gpc = "returned" /\ Len(gitems) = 2
    /\ gitems[1].value = 3850 /\ gitems[2].value = 5000 /\ gtotal = 8850

\* C24: getShippingRates never purchases a label: in every run, successful or
\* failed, each external request it issues is create-shipment or get-rates,
\* and none is buy-label.
C24_RatesNeverBuy ==
    \A k \in 1..Len(fcalls) :
        /\ fcalls[k].op \in {"createShipment", "getShipmentRates"}
        /\ fcalls[k].op # "buyLabel"

C24_Witness ==
    /\ fpc = "done" /\ fres.kind = "rates" /\ Len(fres.availableRates) = 2
    /\ Len(fcalls) = 2 /\ fcalls[2].op = "getShipmentRates" /\ fcalls[2].out = "ok"

\* the place of a request in the order of a run
CallRank(op) ==
    CASE op = "htsLookup" -> 0
      [] op = "createCustomsInfo" -> 1
      [] op = "createShipment" -> 2
      [] op = "buyLabel" -> 3

CustomsInfoCalls == {k \in 1..Len(lcalls) : lcalls[k].op = "createCustomsInfo"}

\* C25: in every createShippingLabel run the external calls come in the order
\* create-customs-info (at most once, only for an international input with at
\* least one product), create-shipment (at most once), buy-label (at most
\* once); each is issued only after the one before it has returned, and
\* buy-label only after create-shipment has returned at least one rate.
C25_CallsInOrder ==
    /\ Cardinality(CustomsInfoCalls) <= 1
    /\ Cardinality(ShipmentCalls) <= 1
    /\ Cardinality(BuyCalls) <= 1
    /\ CustomsInfoCalls # {} =>
          linp.sync = "ok" /\ linp.country # "US" /\ linp.nprod >= 1
    /\ \A j, k \in 1..Len(lcalls) :
          j < k => /\ CallRank(lcalls[j].op) <= CallRank(lcalls[k].op)
                   /\ lcalls[j].out # "pending"
    /\ BuyCalls # {} =>
          /\ \E k \in ShipmentCalls : lcalls[k].out = "ok"
          /\ lshipment.hasRates /\ Len(lshipment.rates) >= 1

C25_Witness ==
    /\ lpc = "done" /\ lresult.kind = "shippingLabel"
    /\ Len(lcalls) = 3
    /\ lcalls[1].op = "createCustomsInfo" /\ lcalls[2].op = "createShipment"
    /\ lcalls[3].op = "buyLabel" /\ lcalls[3].out = "ok"

\* C29: the rate handed to the buy operation is one of the rates the shipment
\* returned and is exactly the rate the selector chose; the carrier, service
\* and cost of the returned result are those of that rate.
C29_BuysSelectedRate ==
    /\ \A k \in BuyCalls :
          /\ \E j \in 1..Len(lshipment.rates) : lshipment.rates[j] = lcalls[k].rate
          /\ lcalls[k].rate = lselected
          /\ lselected = SelectRate(lshipment.rates, linp.carrier)
    /\ lresult.kind = "shippingLabel" =>
          /\ lresult.carrier = lselected.carrier
          /\ lresult.service = lselected.service
          /\ lresult.estimatedCost = lselected.rate

C29_Witness ==
    /\ lresult.kind = "shippingLabel" /\ Len(lshipment.rates) = 3
    /\ lselected = lshipment.rates[3] /\ lresult.carrier = lshipment.rates[3].carrier
    /\ \E k \in BuyCalls : lcalls[k].rate = lshipment.rates[3]

\* C26: under any interleaving of overlapping execute calls on one breaker,
\* state = OPEN implies failureCount >= threshold and state = HALF_OPEN implies
\* failureCount >= threshold.
C26_TrippedMeansCounted ==
    live =>
        /\ state = "OPEN" => failureCount >= threshold
        /\ state = "HALF_OPEN" => failureCount >= threshold

\* C28: when fn fails in an execute call, the call returns fallback() exactly
\* when a fallback was supplied and the breaker is OPEN after the failure was
\* counted; otherwise, and always without a fallback, it rethrows fn's error.
C28_FallbackOnlyWhenOpen ==
    [][\A c \in Calls :
          (call[c].pc = "awaiting" /\ call'[c].pc = "idle"
              /\ failureCount' = failureCount + 1) =>
              /\ ret'.inv = 1
              /\ ret'.res \in {"fallback", "rethrow"}
              /\ ret'.res = "fallback" <=> (call[c].fb /\ state' = "OPEN")]_vars

\* C28 witness: a call whose fn failed has returned its fallback, the failure
\* having tripped a breaker of threshold 2.
C28_Witness ==
    /\ ret.res = "fallback" /\ ret.inv = 1
    /\ state = "OPEN" /\ failureCount = 2 /\ threshold = 2 /\ streak = 2
    /\ NoneInFlight /\ ~overlap

InFlight == {c \in Calls : call[c].pc = "awaiting"}

\* C30: while the breaker is HALF_OPEN at most one fn invocation is in flight:
\* an execute call arriving before the trial invocation has finished does not
\* invoke fn.
C30_SingleTrial == state = "HALF_OPEN" => Cardinality(InFlight) <= 1

\* C27: the breaker cannot stay tripped forever: once every fn invocation
\* succeeds, with time advancing and execute being called again and again, a
\* breaker that is OPEN or HALF_OPEN eventually becomes CLOSED and remains
\* CLOSED from then on.
C27_EventuallyClosed == [](healed => <>[](state = "CLOSED"))

\* C27 witness: after fn stopped failing, the trial call of a tripped breaker
\* has returned fn's value and the breaker is CLOSED.
C27_Witness ==
    /\ healed /\ state = "CLOSED" /\ failureCount = 0
    /\ ret.trial /\ ret.res = "value" /\ lastFailureTime > 0

====
